---- MODULE Spec2Model ----
(***************************************************************************)
(* Model of the cookie-refresh service: the CircuitBreaker                 *)
(* (src/src/helpers/CircuitBreaker.js), the orchestrator                   *)
(* CookieRefreshService (src/unnamed/part_001), the rotating retry loop    *)
(* (src/src/services/browser-cookies.js) and the attempt ledger            *)
(* (src/src/helpers/CookieRefreshTracker.js).                              *)
(*                                                                         *)
(* Time is counted in units of five minutes: 300000 ms = 1.                *)
(***************************************************************************)
EXTENDS Integers, Sequences, FiniteSets, TLC

\* ------------------------------------------------------------------------
\* Bounds of the model
\* ------------------------------------------------------------------------
MaxTime == 2
MaxFailures == 6
MaxSuccess == 2
NumOps == 2
MaxAbandoned == 1
MaxRecords == 3
MaxDays == 2
MaxSnapshots == 12

\* ------------------------------------------------------------------------
\* Program constants
\* ------------------------------------------------------------------------
FAILURE_THRESHOLD == 5
RESET_TIMEOUT == 1
MAX_REFRESH_RETRIES == 10
COOKIE_REFRESH_INTERVAL == 6
NOMINAL_INTERVAL == 3
FAILURE_BACKOFF == 1
DAY == 288

Null == -1

\* no POST /trigger request has been received
NoRequest == [service |-> TRUE, eventId |-> "falsy", proxy |-> "falsy"]

VARIABLES
  cbState,          \* CircuitBreaker.state
  failures,         \* CircuitBreaker.failures
  successCount,     \* CircuitBreaker.successCount
  lastFailureTime,  \* CircuitBreaker.lastFailureTime (Null after construction)
  now,              \* Date.now()
  opState,          \* per overlapping execute() call: "idle" | "running"
  opAdmitted,       \* how the gate let the running call in
  consec,           \* history: operation failures since the last success/reset
  opened,           \* history: the breaker has been OPEN since construction
                    \*   or the last reset()
  isRefreshing,     \* CookieRefreshService.isRefreshing
  refreshQueue,     \* CookieRefreshService.refreshQueue (the queued callers)
  pc,               \* per caller: where its refreshCookies() call / tick handler is
  behind,           \* history, per queued caller: is the acquisition it was
                    \*   queued behind the "current" one or an "earlier" one
  lastOutcome,      \* history: how the acquisition that ended last was settled
                    \*   ("none" while one is running)
  refreshRecord,    \* per caller: refreshRecord of refreshCookies()
  err,              \* per caller: the error caught by refreshCookies()
  result,           \* per caller: the cookie set its retry loop returned
  retryCount,       \* per caller: retryCount of the retry loop
  lastError,        \* per caller: lastError of the retry loop
  touched,          \* history: a cookie file changed since the running
                    \*   acquisition began
  newest,           \* CookieRefresh collection: the record created last
  lastSuccessful,   \* CookieRefresh collection: the successful record with
                    \*   the latest completionTime
  cookiesFile,      \* cookies.json of saveCookiesToFile / loadCookiesFromFile
  dataCookies,      \* data/cookies.json of CookieRefreshService.saveCookies
  abandoned,        \* number of sub-attempts left running after their deadline
  tickNow,          \* the "now" taken by the isRefreshDue() call of the pending tick
  drained,          \* history: the processQueue() that ran last settled queued
                    \*   callers (FALSE again when an acquisition begins)
  coll,             \* the CookieRefresh collection, when the ledger is used alone
  answer,           \* what the last isRefreshDue() call on coll returned
  wr,               \* the cookie set fs.writeFile() has still to write into
                    \*   cookies.json after opening (truncating) it
  wrOld,            \* history: cookies.json as it was when that write began
  rd,               \* where a loadCookiesFromFile() call is
  observed,         \* what the last getCurrentCookies() call got
  allowed,          \* what the last allowsRequests() call on the breaker used
                    \*   directly returned ("unasked" | "yes" | "no")
  resetFlip,        \* history: flips at every reset() of the breaker used
                    \*   directly
  docs,             \* the CookieRefresh collection when cleanup is studied:
                    \*   startTime and status of each record
  cleaned,          \* what the last cleanupOldRecords() call was asked and
                    \*   what it returned
  schedulerInterval, \* CookieRefreshService.schedulerInterval is running
  shutdownPc,       \* where the shutdown() call is: "none" | "polling" |
                    \*   "returned"
  rlPc,             \* the retry loop used alone: where the refreshCookies()
                    \*   call of browser-cookies.js is
  rlRetryCount,     \* its retryCount
  rlLastError,      \* its lastError
  currentEventId,   \* its currentEventId
  currentProxy,     \* its currentProxy
  rlWaitTime,       \* its waitTime, in units of RETRY_DELAY's 10 s (0 before
                    \*   the first sleep)
  stored,           \* cookies.json as that call finds it: number of cookies
                    \*   and expiry of the first one
  rlCalls,          \* history: sub-attempts that invoked the Driver
  rlSubError,       \* history: how the last sub-attempt performed failed
  rlRotated,        \* history: the last failed sub-attempt asked for a new
                    \*   proxy and a new event id
  rlSettled,        \* history: what the call returned or threw
  trPc,             \* where the triggerRefresh handler of the last POST
                    \*   /trigger request is
  trInput,          \* what that request carried
  trResponse,       \* the response sent for it ("none" before it is sent)
  sessionsFile,     \* data/sessions.json: whether it exists, and the array
                    \*   of snapshots it holds (a snapshot is told by its
                    \*   timestamp)
  sessionLog,       \* history: every snapshot saveSession() has written,
                    \*   newest first
  taken,            \* history: number of saveSession() calls so far
  routes,           \* proxyData.proxies holds at least one proxy
  selectedProxy     \* selectedProxy of the refreshCookies() call that chose
                    \*   one last ("unset" before the first)

cbVars == <<cbState, failures, successCount, lastFailureTime>>
opVars == <<opState, opAdmitted, consec, opened>>
ledgerVars == <<newest, lastSuccessful>>
fileVars == <<cookiesFile, dataCookies, touched>>
localVars == <<refreshRecord, err, result, retryCount, lastError>>
probeVars == <<allowed, resetFlip>>
cleanVars == <<docs, cleaned>>
shutVars == <<schedulerInterval, shutdownPc>>
loopVars == <<rlPc, rlRetryCount, rlLastError, currentEventId, currentProxy, rlWaitTime>>
ghostVars == <<stored, rlCalls, rlSubError, rlRotated, rlSettled>>
retryVars == <<loopVars, ghostVars>>
trigVars == <<trPc, trInput, trResponse>>
sessVars == <<sessionsFile, sessionLog, taken>>
routeVars == <<routes, selectedProxy>>
extVars == <<probeVars, cleanVars, shutVars, retryVars, sessVars>>
auxVars == <<coll, answer, wr, wrOld, rd, observed, extVars, trigVars, routeVars>>
svcVars == <<isRefreshing, refreshQueue, pc, behind, lastOutcome, drained,
             localVars, ledgerVars, fileVars, abandoned, tickNow, auxVars>>
vars == <<cbVars, now, opVars, svcVars>>

Ops == 1..NumOps
Users == {"u1", "u2"}
Callers == Users \cup {"sched"}

\* ------------------------------------------------------------------------
\* CircuitBreaker
\* ------------------------------------------------------------------------
\* Date.now() - this.lastFailureTime; a null operand is coerced to 0
Elapsed == now - (IF lastFailureTime = Null THEN 0 ELSE lastFailureTime)

\* the time test of execute(), line 24
ResetElapsed == Elapsed > RESET_TIMEOUT

\* execute(), lines 23-31: the gate in front of the operation
GateRejectsWhileOpen == cbState = "OPEN"

GateRejects == cbState = "OPEN" /\ ~ResetElapsed

StateAfterGateSame == cbState

StateAfterGate == IF cbState = "OPEN" THEN "HALF_OPEN" ELSE cbState

\* allowsRequests()
allowsRequestsClosedOnly ==
  IF cbState = "CLOSED" THEN TRUE
  ELSE IF cbState = "OPEN" THEN Elapsed > RESET_TIMEOUT
  ELSE FALSE

allowsRequestsEarly ==
  IF cbState = "CLOSED" \/ cbState = "HALF_OPEN" THEN TRUE
  ELSE IF cbState = "OPEN" THEN Elapsed >= RESET_TIMEOUT
  ELSE FALSE

allowsRequests ==
  IF cbState = "CLOSED" \/ cbState = "HALF_OPEN" THEN TRUE
  ELSE IF cbState = "OPEN" THEN Elapsed > RESET_TIMEOUT
  ELSE FALSE

\* onSuccess()
StateAfterSuccessAny == "CLOSED"

StateAfterSuccess == IF cbState = "HALF_OPEN" THEN "CLOSED" ELSE cbState

onSuccessKeepsFailures ==
  /\ successCount' = successCount + 1
  /\ cbState' = StateAfterSuccess
  /\ UNCHANGED <<failures, lastFailureTime>>

onSuccess ==
  /\ failures' = 0
  /\ successCount' = successCount + 1
  /\ cbState' = StateAfterSuccess
  /\ UNCHANGED lastFailureTime

\* onFailure()
StateAfterFailureLate ==
  IF failures + 1 > FAILURE_THRESHOLD THEN "OPEN" ELSE cbState

StateAfterFailure == IF failures + 1 >= FAILURE_THRESHOLD THEN "OPEN" ELSE cbState

onFailureCountsTwice ==
  /\ failures' = failures + 2
  /\ lastFailureTime' = now
  /\ cbState' = StateAfterFailure
  /\ UNCHANGED successCount

onFailure ==
  /\ failures' = failures + 1
  /\ lastFailureTime' = now
  /\ cbState' = StateAfterFailure
  /\ UNCHANGED successCount

\* reset()
resetStateOnly ==
  /\ cbState' = "CLOSED"
  /\ UNCHANGED <<failures, successCount, lastFailureTime>>

resetCountsOnly ==
  /\ failures' = 0
  /\ successCount' = 0
  /\ lastFailureTime' = Null
  /\ UNCHANGED cbState

reset ==
  /\ cbState' = "CLOSED"
  /\ failures' = 0
  /\ successCount' = 0
  /\ lastFailureTime' = Null

\* ------------------------------------------------------------------------
\* Initial states
\* ------------------------------------------------------------------------
\* new CircuitBreaker(), and the clock
InitBreaker ==
  /\ cbState = "CLOSED"
  /\ failures = 0
  /\ successCount = 0
  /\ lastFailureTime = Null
  /\ now = 0
  /\ opState = [o \in Ops |-> "idle"]
  /\ opAdmitted = [o \in Ops |-> "none"]
  /\ consec = 0
  /\ opened = FALSE

NoFile == [id |-> Null, exp |-> 0]
NotRead == Null - 1
NoAnswer == [asked |-> Null, due |-> FALSE]
NoCleanup == [asked |-> Null, days |-> 0, deletedCount |-> 0]
NoRecord == [status |-> "none", completion |-> Null, next |-> Null,
             retryCount |-> 0]

\* new CookieRefreshService(), an empty CookieRefresh collection, no
\* cookies.json yet
InitService ==
  /\ isRefreshing = FALSE
  /\ refreshQueue = <<>>
  /\ pc = [c \in Callers |-> "idle"]
  /\ behind = [c \in Callers |-> "none"]
  /\ lastOutcome = "none"
  /\ drained = FALSE
  /\ refreshRecord = [c \in Callers |-> FALSE]
  /\ err = [c \in Callers |-> "none"]
  /\ result = [c \in Callers |-> Null]
  /\ retryCount = [c \in Callers |-> 0]
  /\ lastError = [c \in Callers |-> "none"]
  /\ touched = FALSE
  /\ newest = NoRecord
  /\ lastSuccessful = NoRecord
  /\ cookiesFile = NoFile
  /\ dataCookies = Null
  /\ abandoned = 0
  /\ tickNow = Null
  /\ coll = <<>>
  /\ answer = NoAnswer
  /\ wr = NoFile
  /\ wrOld = NoFile
  /\ rd = "idle"
  /\ observed = NotRead
  /\ allowed = "unasked"
  /\ resetFlip = FALSE
  /\ docs = <<>>
  /\ cleaned = NoCleanup
  /\ schedulerInterval = TRUE
  /\ shutdownPc = "none"
  /\ rlPc = "idle"
  /\ rlRetryCount = 0
  /\ rlLastError = "none"
  /\ currentEventId = "none"
  /\ currentProxy = "none"
  /\ rlWaitTime = 0
  /\ stored = [count |-> 0, expiry |-> 0]
  /\ rlCalls = 0
  /\ rlSubError = "none"
  /\ rlRotated = FALSE
  /\ rlSettled = "none"
  /\ trPc = "none"
  /\ trInput = NoRequest
  /\ trResponse = "none"
  /\ sessionsFile = [exists |-> FALSE, list |-> <<>>]
  /\ sessionLog = <<>>
  /\ taken = 0
  /\ selectedProxy = "unset"

\* the service started with a proxy list that is not empty
Init == InitBreaker /\ InitService /\ routes = TRUE

\* the service started with an empty proxy list
InitNoRoutes == InitBreaker /\ InitService /\ routes = FALSE

\* the clock advances
Tick ==
  /\ now < MaxTime
  /\ now' = now + 1
  /\ UNCHANGED <<cbVars, opVars, svcVars>>

\* ------------------------------------------------------------------------
\* The breaker used directly, by execute() calls that may overlap
\* ------------------------------------------------------------------------
\* execute(operation) up to the first await: the gate throws
CBExecuteRejected(o) ==
  /\ opState[o] = "idle"
  /\ GateRejects
  /\ opAdmitted' = [opAdmitted EXCEPT ![o] = "rejected"]
  /\ UNCHANGED <<cbVars, now, opState, consec, opened, svcVars>>

\* execute(operation) up to the first await: the operation is started
CBExecuteAdmitted(o) ==
  /\ opState[o] = "idle"
  /\ failures < MaxFailures
  /\ successCount < MaxSuccess
  /\ ~GateRejects
  /\ cbState' = StateAfterGate
  /\ opState' = [opState EXCEPT ![o] = "running"]
  /\ opAdmitted' = [opAdmitted EXCEPT ![o] =
                      IF cbState = "OPEN" THEN "PROBE" ELSE cbState]
  /\ UNCHANGED <<failures, successCount, lastFailureTime, now, consec, opened,
                 svcVars>>

\* the awaited operation resolves: onSuccess()
CBOpSucceeds(o) ==
  /\ opState[o] = "running"
  /\ onSuccess
  /\ opState' = [opState EXCEPT ![o] = "idle"]
  /\ opAdmitted' = [opAdmitted EXCEPT ![o] = "none"]
  /\ consec' = 0
  /\ UNCHANGED <<now, opened, svcVars>>

\* the awaited operation rejects: onFailure()
CBOpFails(o) ==
  /\ opState[o] = "running"
  /\ onFailure
  /\ opState' = [opState EXCEPT ![o] = "idle"]
  /\ opAdmitted' = [opAdmitted EXCEPT ![o] = "none"]
  /\ consec' = consec + 1
  /\ opened' = (opened \/ cbState' = "OPEN")
  /\ UNCHANGED <<now, svcVars>>

\* reset() at any moment
CBReset ==
  /\ reset
  /\ consec' = 0
  /\ opened' = FALSE
  /\ resetFlip' = ~resetFlip
  /\ UNCHANGED <<now, opState, opAdmitted, isRefreshing, refreshQueue, pc,
                 behind, lastOutcome, drained, localVars, ledgerVars, fileVars,
                 abandoned, tickNow, coll, answer, wr, wrOld, rd, observed,
                 allowed, cleanVars,
                 shutVars,
                 retryVars,
                 trigVars,
                 sessVars,
                 routeVars>>

\* allowsRequests() at any moment
CBAllowsRequests ==
  /\ allowed' = IF allowsRequests THEN "yes" ELSE "no"
  /\ UNCHANGED <<cbVars, now, opVars, isRefreshing, refreshQueue, pc,
                 behind, lastOutcome, drained, localVars, ledgerVars, fileVars,
                 abandoned, tickNow, coll, answer, wr, wrOld, rd, observed,
                 resetFlip, cleanVars,
                 shutVars,
                 retryVars,
                 trigVars,
                 sessVars,
                 routeVars>>

NextCB ==
  \/ \E o \in Ops : CBExecuteRejected(o)
  \/ \E o \in Ops : CBExecuteAdmitted(o)
  \/ \E o \in Ops : CBOpSucceeds(o)
  \/ \E o \in Ops : CBOpFails(o)
  \/ CBReset
  \/ CBAllowsRequests
  \/ Tick

SpecCB == Init /\ [][NextCB]_vars

\* ------------------------------------------------------------------------
\* Properties of the breaker
\* ------------------------------------------------------------------------
\* C4, as stated: every entry into OPEN happens at the failure that makes
\* the number of consecutive failures equal to the threshold.
C4_OpensExactlyAtThreshold ==
  [][(cbState # "OPEN" /\ cbState' = "OPEN") => consec' = FAILURE_THRESHOLD]_vars

\* C4, amended: the breaker leaves CLOSED for OPEN exactly at the failure
\* that makes the number of consecutive failures equal to the threshold, and
\* is never CLOSED with that many; it re-enters OPEN from HALF_OPEN at a
\* count that is at least the threshold and may exceed it.
C4_ClosedOpensAtThreshold ==
  [][/\ (cbState = "CLOSED" /\ cbState' = "OPEN") => consec' = FAILURE_THRESHOLD
     /\ (cbState # "OPEN" /\ cbState' = "OPEN") => consec' >= FAILURE_THRESHOLD
     /\ cbState' = "CLOSED" => consec' < FAILURE_THRESHOLD]_vars

\* C4 witness: the breaker has just opened on the threshold-th failure
C4_Witness ==
  /\ cbState = "OPEN"
  /\ consec = FAILURE_THRESHOLD
  /\ failures = FAILURE_THRESHOLD
  /\ lastFailureTime = now

\* a step of onSuccess() / of reset(), told by what it does to the counters
SuccessStep == successCount' = successCount + 1 /\ failures' = 0
ResetStep ==
  /\ cbState' = "CLOSED"
  /\ failures' = 0
  /\ successCount' = 0
  /\ lastFailureTime' = Null

\* C5, as stated: the breaker becomes CLOSED again only by a success that
\* completes while it is HALF_OPEN.
C5_ClosesOnlyByProbeSuccess ==
  [][(cbState # "CLOSED" /\ cbState' = "CLOSED")
       => (cbState = "HALF_OPEN" /\ SuccessStep)]_vars

\* C5, amended: the breaker becomes CLOSED again only by a success that
\* completes while it is HALF_OPEN, or by reset().
C5_ClosesByProbeSuccessOrReset ==
  [][(cbState # "CLOSED" /\ cbState' = "CLOSED")
       => ((cbState = "HALF_OPEN" /\ SuccessStep) \/ ResetStep)]_vars

\* C5 witness: CLOSED again after OPEN with no reset() in between
C5_Witness ==
  /\ cbState = "CLOSED"
  /\ opened
  /\ successCount > 0
  /\ lastFailureTime # Null

\* C8: an operation admitted while the breaker was HALF_OPEN (the probe, or
\* a call let in behind it) fails, and the state after its onFailure() is
\* OPEN.
C8_HalfOpenFailureReopens ==
  [][\A o \in Ops :
       (/\ opState[o] = "running"
        /\ opAdmitted[o] \in {"PROBE", "HALF_OPEN"}
        /\ opState'[o] = "idle"
        /\ failures' = failures + 1)
         => cbState' = "OPEN"]_vars

\* C9: while the probe let through on the elapsed timeout is running, no
\* call admitted after it has its operation running.
C9_OnlyTheProbeRuns ==
  \A o1, o2 \in Ops :
    ~(/\ opState[o1] = "running" /\ opAdmitted[o1] = "PROBE"
      /\ opState[o2] = "running" /\ opAdmitted[o2] = "HALF_OPEN")

\* C27: allowsRequests() answers true exactly when the gate of execute()
\* would let the operation run at that instant, for every breaker state and
\* clock value, and a call of it changes no field of the breaker (an OPEN
\* breaker whose timeout has elapsed stays OPEN).
C27_AllowsMirrorsGate ==
  /\ [](allowsRequests <=> ~GateRejects)
  /\ [][allowed' # allowed
          => /\ (allowed' = "yes") <=> ~GateRejects
             /\ UNCHANGED cbVars]_vars

\* C27 witness: allowsRequests() has answered true on an OPEN breaker whose
\* reset timeout has elapsed, and the breaker is still OPEN
C27_Witness ==
  /\ allowed = "yes"
  /\ cbState = "OPEN"
  /\ ResetElapsed

\* the breaker as the constructor leaves it
FreshBreaker ==
  /\ cbState = "CLOSED"
  /\ failures = 0
  /\ successCount = 0
  /\ lastFailureTime = Null

\* C28: reset() called in any state, operations in flight or not, leaves the
\* breaker CLOSED with failures 0, successCount 0 and no last-failure time;
\* reset() of a breaker that was just reset changes nothing.
C28_ResetZeroesAll ==
  /\ [][resetFlip' # resetFlip
          => /\ ResetStep
             /\ FreshBreaker => UNCHANGED cbVars]_vars
  /\ [](FreshBreaker => ENABLED (reset /\ UNCHANGED cbVars))

\* C28 witness: reset() was called on an OPEN breaker while an operation
\* was in flight
C28_Witness ==
  /\ resetFlip
  /\ FreshBreaker
  /\ \E o \in Ops : opState[o] = "running" /\ opAdmitted[o] = "PROBE"

\* ------------------------------------------------------------------------
\* Attempt ledger (CookieRefreshTracker)
\* ------------------------------------------------------------------------
\* the query of isRefreshDue() on the records recs, asked at time t:
\* findOne({status: 'success'}).sort({completionTime: -1}); true if there is
\* none, else nextScheduledRefresh <= t
Successes(recs) == {i \in 1..Len(recs) : recs[i].status = "success"}

LatestSuccess(recs) ==
  CHOOSE i \in Successes(recs) :
    \A j \in Successes(recs) : recs[j].completion <= recs[i].completion

DueAnswerAnyStatus(recs, t) ==
  IF recs = <<>> THEN TRUE ELSE recs[Len(recs)].next <= t

DueAnswer(recs, t) ==
  IF Successes(recs) = {} THEN TRUE
  ELSE recs[LatestSuccess(recs)].next <= t

\* isRefreshDue() of the service, on the two records it keeps track of
isRefreshDue(t) == DueAnswer(<<newest, lastSuccessful>>, t)

\* the record startRefresh() creates
StartedRecord == [status |-> "in_progress", completion |-> Null, next |-> Null,
                  retryCount |-> 0]

\* the retryCount the orchestrator hands to markSuccess() and markFailed():
\* result.retryCount of performCookieRefresh(), and the literal of the
\* catch block
REPORTED_RETRY_COUNT == 0

\* the update markSuccess() writes
SuccessRecordShort == [status |-> "success", completion |-> now,
                       next |-> now + FAILURE_BACKOFF,
                       retryCount |-> REPORTED_RETRY_COUNT]

SuccessRecord == [status |-> "success", completion |-> now,
                  next |-> now + NOMINAL_INTERVAL,
                  retryCount |-> REPORTED_RETRY_COUNT]

\* the update markFailed() writes
FailedRecordUnmarked == [status |-> "in_progress", completion |-> Null,
                         next |-> Null, retryCount |-> 0]

FailedRecord == [status |-> "failed", completion |-> now,
                 next |-> now + FAILURE_BACKOFF,
                 retryCount |-> REPORTED_RETRY_COUNT]

\* ------------------------------------------------------------------------
\* The ledger used alone: CookieRefreshTracker on a collection of records
\* ------------------------------------------------------------------------
\* startRefresh(): CookieRefresh.create() of an in_progress record
LedgerStartRefresh ==
  /\ Len(coll) < MaxRecords
  /\ coll' = Append(coll, StartedRecord)
  /\ UNCHANGED <<cbVars, now, opVars, isRefreshing, refreshQueue, pc, behind,
                 lastOutcome, drained, localVars, ledgerVars, fileVars,
                 abandoned, tickNow, answer, wr, wrOld, rd, observed, extVars,
                 trigVars,
                 routeVars>>

\* markSuccess(refreshId) of a record in progress
LedgerMarkSuccess(i) ==
  /\ coll[i].status = "in_progress"
  /\ coll' = [coll EXCEPT ![i] = SuccessRecord]
  /\ UNCHANGED <<cbVars, now, opVars, isRefreshing, refreshQueue, pc, behind,
                 lastOutcome, drained, localVars, ledgerVars, fileVars,
                 abandoned, tickNow, answer, wr, wrOld, rd, observed, extVars,
                 trigVars,
                 routeVars>>

\* markFailed(refreshId) of a record in progress
LedgerMarkFailed(i) ==
  /\ coll[i].status = "in_progress"
  /\ coll' = [coll EXCEPT ![i] = FailedRecord]
  /\ UNCHANGED <<cbVars, now, opVars, isRefreshing, refreshQueue, pc, behind,
                 lastOutcome, drained, localVars, ledgerVars, fileVars,
                 abandoned, tickNow, answer, wr, wrOld, rd, observed, extVars,
                 trigVars,
                 routeVars>>

\* isRefreshDue() on the collection
LedgerIsRefreshDue ==
  /\ answer' = [asked |-> now, due |-> DueAnswer(coll, now)]
  /\ UNCHANGED <<cbVars, now, opVars, isRefreshing, refreshQueue, pc, behind,
                 lastOutcome, drained, localVars, ledgerVars, fileVars,
                 abandoned, tickNow, coll, wr, wrOld, rd, observed, extVars,
                 trigVars,
                 routeVars>>

NextLedger ==
  \/ LedgerStartRefresh
  \/ \E i \in 1..Len(coll) : LedgerMarkSuccess(i)
  \/ \E i \in 1..Len(coll) : LedgerMarkFailed(i)
  \/ LedgerIsRefreshDue
  \/ Tick

SpecLedger == Init /\ [][NextLedger]_vars

\* ------------------------------------------------------------------------
\* Properties of the ledger
\* ------------------------------------------------------------------------
\* the successful records none of which completed later
LatestSuccesses ==
  {i \in 1..Len(coll) :
     /\ coll[i].status = "success"
     /\ \A j \in 1..Len(coll) :
          coll[j].status = "success" => coll[j].completion <= coll[i].completion}

\* C17: isRefreshDue() answers true when there is no successful record;
\* otherwise it answers true exactly when the next-scheduled-time of the
\* successful record that completed last is not after the time of the call,
\* whatever failed or in_progress records there are.
C17_DueBySuccessOnly ==
  [][answer' # answer =>
       (answer'.due <=>
          \/ \A i \in 1..Len(coll) : coll[i].status # "success"
          \/ \E i \in LatestSuccesses : coll[i].next <= now)]_vars

\* C17 witness: not due right after a success, although a failed record
\* whose own next-scheduled-time has passed and a record in progress came
\* after it
C17_Witness ==
  /\ answer.asked = now
  /\ ~answer.due
  /\ \E i \in 1..Len(coll) : coll[i].status = "success" /\ coll[i].next > now
  /\ \E i \in 1..Len(coll) : coll[i].status = "failed" /\ coll[i].next <= now
  /\ \E i \in 1..Len(coll) : coll[i].status = "in_progress"

\* C18: of a successful and a failed record with the same completion time,
\* the successful one has the strictly later next-scheduled-time.
C18_SuccessScheduledLater ==
  \A i, j \in 1..Len(coll) :
    (/\ coll[i].status = "success"
     /\ coll[j].status = "failed"
     /\ coll[i].completion = coll[j].completion)
      => coll[i].next > coll[j].next

\* C18 witness: a success and a failure that completed at the same time
C18_Witness ==
  \E i, j \in 1..Len(coll) :
    /\ coll[i].status = "success"
    /\ coll[j].status = "failed"
    /\ coll[i].completion = coll[j].completion
    /\ coll[i].next = coll[i].completion + NOMINAL_INTERVAL
    /\ coll[j].next = coll[j].completion + FAILURE_BACKOFF

\* ------------------------------------------------------------------------
\* The retry loop used alone: one call of refreshCookies(eventId, proxy) of
\* browser-cookies.js against a Driver that may succeed, fail or run past
\* its deadline
\* ------------------------------------------------------------------------
Events == {"e1", "e2"}
Proxies == {"p1", "p2"}
NoProxy == "none"

\* cookies.json as the call may find it: missing or empty (count 0), a
\* short set, a full set; no expiry, an expiry that the clock reaches and
\* passes, an expiry ahead, an expiry a whole refresh interval ahead
Files == [count : {0, 2, 3},
          expiry : {0, 1, COOKIE_REFRESH_INTERVAL - 1, COOKIE_REFRESH_INTERVAL}]

\* how a sub-attempt fails: the deadline timer rejects ("... timeout ...
\* browser restart required"), the Driver reports an error whose message
\* mentions a timeout, or one whose message does not
Errors == {"deadline", "driver-timeout", "driver-other"}

\* error.message.includes("browser restart required") || includes("timeout")
MentionsTimeout(e) == e \in {"deadline", "driver-timeout"}

\* cookieAge of lines 821-823
cookieAge(f) == IF f.expiry = 0 THEN 0 ELSE f.expiry - now

\* the test of lines 820 and 825
ExistingCookiesAnyCount(f) ==
  /\ f.count > 0
  /\ cookieAge(f) > 0
  /\ cookieAge(f) < COOKIE_REFRESH_INTERVAL

ExistingCookiesValid(f) ==
  /\ f.count >= 3
  /\ cookieAge(f) > 0
  /\ cookieAge(f) < COOKIE_REFRESH_INTERVAL

\* if (retryCount === 0), line 818
FirstAttempt(n) == n = 0

\* while (retryCount <= CONFIG.MAX_REFRESH_RETRIES), line 800
LoopContinues(n) == n <= MAX_REFRESH_RETRIES

\* if (retryCount > CONFIG.MAX_REFRESH_RETRIES) throw lastError, line 1116
ExhaustedEarly(n) == n >= MAX_REFRESH_RETRIES

Exhausted(n) == n > MAX_REFRESH_RETRIES

\* the rotation block is entered, lines 1047-1050
Rotates(e, n) == MentionsTimeout(e) /\ n < MAX_REFRESH_RETRIES

\* CONFIG.RETRY_DELAY, the unit in which waitTime is counted
RETRY_DELAY == 1

Min(a, b) == IF a < b THEN a ELSE b

\* waitTime = CONFIG.RETRY_DELAY * Math.min(retryCount, 3), line 1132
waitTimeUncapped(n) == RETRY_DELAY * n

waitTime(n) == RETRY_DELAY * Min(n, 3)

\* where "return result" of line 1034 leaves the call
AfterSuccessLoops == "sleep"

AfterSuccess == "returned"

notRetryVars == <<cbVars, now, opVars, isRefreshing, refreshQueue, pc, behind,
                  lastOutcome, drained, localVars, ledgerVars, fileVars,
                  abandoned, tickNow, coll, answer, wr, wrOld, rd, observed,
                  probeVars, cleanVars, shutVars, trigVars, sessVars,
                  routeVars>>

\* refreshCookies(eventId, proxy) is called
RetryCall ==
  /\ rlPc = "idle"
  /\ \E e \in Events, p \in Proxies \cup {NoProxy}, f \in Files :
       /\ currentEventId' = e
       /\ currentProxy' = p
       /\ stored' = f
  /\ rlPc' = "top"
  /\ rlRetryCount' = 0
  /\ rlLastError' = "none"
  /\ UNCHANGED <<notRetryVars, rlWaitTime, rlCalls, rlSubError, rlRotated,
                 rlSettled>>

\* the top of an iteration: the loop test, the cached short-circuit of the
\* first iteration, and the start of the Driver sub-attempt
RetryIteration ==
  /\ rlPc = "top"
  /\ IF ~LoopContinues(rlRetryCount)
       THEN /\ rlPc' = "threw"
            /\ rlSettled' = rlLastError
            /\ UNCHANGED rlCalls
       ELSE IF FirstAttempt(rlRetryCount) /\ ExistingCookiesValid(stored)
       THEN /\ rlPc' = "returned"
            /\ rlSettled' = "cached"
            /\ UNCHANGED rlCalls
       ELSE /\ rlPc' = "driver"
            /\ rlCalls' = rlCalls + 1
            /\ UNCHANGED rlSettled
  /\ UNCHANGED <<notRetryVars, rlRetryCount, rlLastError, currentEventId,
                 currentProxy, rlWaitTime, stored, rlSubError, rlRotated>>

\* the sub-attempt resolves with captured cookies: return result
RetryDriverSucceeds ==
  /\ rlPc = "driver"
  /\ rlPc' = AfterSuccess
  /\ rlSettled' = "captured"
  /\ rlSubError' = "none"
  /\ UNCHANGED <<notRetryVars, rlRetryCount, rlLastError, currentEventId,
                 currentProxy, rlWaitTime, stored, rlCalls, rlRotated>>

\* the sub-attempt rejects with error e: the catch block; newProxy and
\* newEventId are what getAlternativeProxy() and
\* generateAlternativeEventId() would answer (NoProxy: null)
RetryDriverFails(e, newProxy, newEventId) ==
  /\ rlPc = "driver"
  /\ rlLastError' = e
  /\ rlSubError' = e
  /\ rlRotated' = Rotates(e, rlRetryCount)
  /\ currentProxy' =
       IF Rotates(e, rlRetryCount) /\ newProxy # NoProxy /\ newProxy # currentProxy
         THEN newProxy ELSE currentProxy
  /\ currentEventId' =
       IF Rotates(e, rlRetryCount) /\ newEventId # currentEventId
         THEN newEventId ELSE currentEventId
  /\ rlRetryCount' = rlRetryCount + 1
  /\ IF Exhausted(rlRetryCount + 1)
       THEN rlPc' = "threw" /\ rlSettled' = e /\ UNCHANGED rlWaitTime
       ELSE /\ rlPc' = "sleep"
            /\ rlWaitTime' = waitTime(rlRetryCount + 1)
            /\ UNCHANGED rlSettled
  /\ UNCHANGED <<notRetryVars, stored, rlCalls>>

\* the backoff sleep and the finally block end
RetrySleep ==
  /\ rlPc = "sleep"
  /\ rlPc' = "top"
  /\ UNCHANGED <<notRetryVars, rlRetryCount, rlLastError, currentEventId,
                 currentProxy, rlWaitTime, ghostVars,
                 sessVars>>

NextRetry ==
  \/ RetryCall
  \/ RetryIteration
  \/ RetryDriverSucceeds
  \/ \E e \in Errors, newProxy \in Proxies \cup {NoProxy}, newEventId \in Events :
       RetryDriverFails(e, newProxy, newEventId)
  \/ RetrySleep
  \/ Tick

SpecRetry == Init /\ [][NextRetry]_vars

\* every sub-attempt ends and every sleep ends
SpecRetryLive == Init /\ [][NextRetry]_vars /\ WF_vars(NextRetry)

\* C32: the step from OPEN to HALF_OPEN leaves the failure count and the
\* last-failure time as they were; the failure count goes down only to 0,
\* and only by reset() or by an operation that succeeded, which always
\* sets it to 0.
C32_HalfOpenKeepsCount ==
  [][/\ (cbState = "OPEN" /\ cbState' = "HALF_OPEN") =>
          UNCHANGED <<failures, lastFailureTime>>
     /\ failures' < failures =>
          /\ failures' = 0
          /\ \/ resetFlip' # resetFlip
             \/ \E o \in Ops : /\ opState[o] = "running"
                                /\ opState'[o] = "idle"
                                /\ successCount' = successCount + 1
     /\ successCount' = successCount + 1 => failures' = 0]_vars

\* C32 witness: a probe has just been admitted from OPEN; the breaker is
\* HALF_OPEN with the failure count and the last-failure time it had
C32_Witness ==
  /\ cbState = "HALF_OPEN"
  /\ failures >= FAILURE_THRESHOLD
  /\ lastFailureTime # Null
  /\ \E o \in Ops : opState[o] = "running" /\ opAdmitted[o] = "PROBE"

\* ------------------------------------------------------------------------
\* Properties of the retry loop
\* ------------------------------------------------------------------------
\* C22: one call of the retry loop performs at most MAX_REFRESH_RETRIES + 1
\* sub-attempts, returns at the first sub-attempt that succeeds without
\* starting another one, and, every sub-attempt and sleep ending, always
\* terminates by returning or throwing.
C22_BoundedLoopTerminates ==
  /\ [](rlCalls <= MAX_REFRESH_RETRIES + 1)
  /\ [][/\ (rlPc = "driver" /\ rlSettled' = "captured") => rlPc' = "returned"
        /\ rlPc = "returned" => UNCHANGED <<rlPc, rlCalls>>]_vars
  /\ (rlPc = "top") ~> (rlPc \in {"returned", "threw"})

\* C22 witness: the last sub-attempt allowed succeeded and the call returned
C22_Witness ==
  /\ rlPc = "returned"
  /\ rlSettled = "captured"
  /\ rlCalls = MAX_REFRESH_RETRIES + 1

\* C23: the retry loop throws if and only if all MAX_REFRESH_RETRIES + 1
\* sub-attempts failed, and what it throws is the error of the last
\* sub-attempt performed.
C23_ThrowsLastErrorWhenExhausted ==
  /\ rlPc = "threw" =>
       /\ rlCalls = MAX_REFRESH_RETRIES + 1
       /\ rlRetryCount = rlCalls
       /\ rlSubError # "none"
       /\ rlSettled = rlSubError
  /\ (rlCalls = MAX_REFRESH_RETRIES + 1 /\ rlPc \notin {"driver", "returned"})
       => rlPc = "threw"
  /\ rlPc = "returned" => rlSettled \in {"captured", "cached"}

\* C23 witness: the call threw the error of its last sub-attempt, an error
\* of the Driver that mentions no timeout
C23_Witness ==
  /\ rlPc = "threw"
  /\ rlSettled = "driver-other"

\* C24: after every failed sub-attempt that is not the last one, Driver
\* error and expired deadline alike, the loop asks for a new proxy and a
\* new event id before the next sub-attempt.
C24_RotatesAfterEveryFailure ==
  [][(rlPc = "driver" /\ rlPc' = "sleep") => rlRotated']_vars

\* C25, as stated: at the first sub-attempt a stored set that is non-empty
\* and not expired is returned without invoking the Driver.
C25_NonEmptyUnexpiredReturned ==
  [][(/\ rlPc = "top" /\ rlPc' # "top" /\ rlRetryCount = 0
      /\ stored.count > 0 /\ stored.expiry > now)
       => (rlPc' = "returned" /\ rlSettled' = "cached" /\ UNCHANGED rlCalls)]_vars

\* C25, amended: the stored set is returned without invoking the Driver
\* exactly when this is the first sub-attempt, the set holds at least three
\* cookies and the expiry of its first cookie lies ahead by more than zero
\* and less than the refresh interval; never on a later sub-attempt, never
\* for an expired, short or empty set.
C25_CachedShortCircuit ==
  [][/\ (rlPc = "top" /\ rlPc' # "top") =>
          ((rlSettled' = "cached") <=>
             (/\ rlRetryCount = 0
              /\ stored.count >= 3
              /\ stored.expiry - now > 0
              /\ stored.expiry - now < COOKIE_REFRESH_INTERVAL))
     /\ rlSettled' = "cached" => (rlPc' = "returned" /\ rlCalls' = 0)]_vars

\* C25 witness: the call returned the stored set without any sub-attempt
C25_Witness ==
  /\ rlPc = "returned"
  /\ rlSettled = "cached"
  /\ rlCalls = 0
  /\ stored.count >= 3
  /\ stored.expiry > now

\* C26: the retryCount stored in the record of a finished acquisition is
\* the number of sub-attempts its retry loop performed: one more than the
\* failed ones when the Driver succeeded after failures, all
\* MAX_REFRESH_RETRIES + 1 when the loop was exhausted.
C26_RecordCountsSubAttempts ==
  [][\A c \in Callers :
       /\ (/\ pc[c] = "markSuccess"
           /\ newest'.status = "success"
           /\ retryCount[c] > 0)
            => newest'.retryCount = retryCount[c] + 1
       /\ (/\ pc[c] = "markFailed"
           /\ newest'.status = "failed"
           /\ retryCount[c] = MAX_REFRESH_RETRIES + 1)
            => newest'.retryCount = MAX_REFRESH_RETRIES + 1]_vars

\* C33: the sleep that follows the k-th failed sub-attempt lasts
\* min(k, 3) * RETRY_DELAY, never more than 3 * RETRY_DELAY; a sub-attempt
\* after a failed one starts only when that sleep has ended; the 11th
\* failed sub-attempt is followed by the throw, not by a sleep.
C33_CappedLinearBackoff ==
  /\ [](rlPc = "sleep" =>
          /\ rlCalls \in 1..MAX_REFRESH_RETRIES
          /\ rlWaitTime = (IF rlCalls < 3 THEN rlCalls ELSE 3) * RETRY_DELAY
          /\ rlWaitTime <= 3 * RETRY_DELAY)
  /\ [][/\ (rlPc = "driver" /\ rlRetryCount' # rlRetryCount /\ rlCalls <= MAX_REFRESH_RETRIES)
             => rlPc' = "sleep"
        /\ (rlPc = "driver" /\ rlRetryCount' # rlRetryCount /\ rlCalls = MAX_REFRESH_RETRIES + 1)
             => rlPc' = "threw"
        /\ (rlCalls' = rlCalls + 1 /\ rlCalls > 0) => rlPc = "top"
        /\ (rlPc # "top" /\ rlPc' = "top") => rlPc \in {"idle", "sleep"}]_vars

\* C33 witness: the loop sleeps after its 10th failed sub-attempt
C33_Witness ==
  /\ rlPc = "sleep"
  /\ rlCalls = MAX_REFRESH_RETRIES
  /\ rlWaitTime = 3 * RETRY_DELAY

\* ------------------------------------------------------------------------
\* Properties of the trigger handler
\* ------------------------------------------------------------------------
\* C29: the trigger is fire-and-continue. A response is sent only by the
\* handler, in a step that starts, advances and ends no acquisition, and it
\* is the acknowledgment exactly for a valid request to an available
\* service; the handler calls refreshCookies() only after it has
\* acknowledged; no step of the acquisition, its end included, touches the
\* response; a request rejected by validation (eventId that is not a
\* string, proxy lacking host or port) leaves the service as it was.
C29_FireAndContinue ==
  [][/\ trResponse' # trResponse =>
          /\ UNCHANGED <<pc, isRefreshing, refreshQueue, lastOutcome>>
          /\ pc["u1"] = "idle"
          /\ (trResponse' = "200") <=>
                (/\ trInput'.service
                 /\ trInput'.eventId # "other"
                 /\ trInput'.proxy # "partial")
     /\ (pc'["u1"] # pc["u1"] \/ lastOutcome' # lastOutcome) =>
          UNCHANGED <<trResponse, trInput>>
     /\ (pc["u1"] = "idle" /\ pc'["u1"] # "idle") =>
          /\ trResponse = "200"
          /\ trPc = "responded" /\ trPc' = "called"
     /\ (trPc # trPc' /\ (trInput'.eventId = "other" \/ trInput'.proxy = "partial")) =>
          /\ trPc' = "rejected"
          /\ trResponse' # "200"
          /\ UNCHANGED <<pc, isRefreshing, refreshQueue, lastOutcome, newest>>]_vars

\* C29 witness: the acknowledged acquisition is failing, its record about
\* to be marked failed, long after the response was sent
C29_Witness ==
  /\ trResponse = "200"
  /\ trPc = "called"
  /\ pc["u1"] = "markFailed"

\* ------------------------------------------------------------------------
\* The session history: CookieRefreshService.saveSession() on
\* data/sessions.json, one call at a time (the calls are made inside the
\* single-flight body of refreshCookies())
\* ------------------------------------------------------------------------
\* sessions.slice(0, 10)
SESSION_CAP == 10

\* fs.readFile() and JSON.parse(), an empty array when the file is missing
ReadSessions == IF sessionsFile.exists THEN sessionsFile.list ELSE <<>>

\* sessions.unshift(sessionData)
Unshift(list, x) == <<x>> \o list

\* sessions.slice(0, n)
SliceAll(list, n) == list

Slice(list, n) == SubSeq(list, 1, Min(Len(list), n))

\* saveSession(sessionData) whose writeFile() resolves; the snapshot gets
\* the next timestamp
SaveSessionWrites ==
  /\ taken < MaxSnapshots
  /\ taken' = taken + 1
  /\ sessionsFile' = [exists |-> TRUE,
                      list |-> Slice(Unshift(ReadSessions, taken + 1), SESSION_CAP)]
  /\ sessionLog' = <<taken + 1>> \o sessionLog
  /\ UNCHANGED <<cbVars, now, opVars, isRefreshing, refreshQueue, pc, behind,
                 lastOutcome, drained, localVars, ledgerVars, fileVars,
                 abandoned, tickNow, coll, answer, wr, wrOld, rd, observed,
                 probeVars, cleanVars, shutVars, retryVars, trigVars,
                 routeVars>>

\* saveSession(sessionData) whose writeFile() rejects before the file is
\* touched: the error is logged and swallowed
SaveSessionFails ==
  /\ taken < MaxSnapshots
  /\ taken' = taken + 1
  /\ UNCHANGED <<cbVars, now, opVars, isRefreshing, refreshQueue, pc, behind,
                 lastOutcome, drained, localVars, ledgerVars, fileVars,
                 abandoned, tickNow, coll, answer, wr, wrOld, rd, observed,
                 probeVars, cleanVars, shutVars, retryVars, trigVars,
                 sessionsFile, sessionLog,
                 routeVars>>

NextSessions ==
  \/ SaveSessionWrites
  \/ SaveSessionFails

SpecSessions == Init /\ [][NextSessions]_vars

cutoffDate(daysToKeep) == now - daysToKeep * DAY

\* the filter { startTime: { $lt: cutoffDate } }
MatchesAtCutoff(doc, cutoff) == doc.start <= cutoff

Matches(doc, cutoff) == doc.start < cutoff

RECURSIVE Remaining(_, _)
Remaining(ds, cutoff) ==
  IF ds = <<>> THEN <<>>
  ELSE IF Matches(Head(ds), cutoff) THEN Remaining(Tail(ds), cutoff)
  ELSE <<Head(ds)>> \o Remaining(Tail(ds), cutoff)

\* startRefresh(): a record is created with startTime = new Date()
CleanupStartRefresh ==
  /\ Len(docs) < MaxRecords
  /\ docs' = Append(docs, [start |-> now, status |-> "in_progress"])
  /\ UNCHANGED <<cbVars, now, opVars, isRefreshing, refreshQueue, pc, behind,
                 lastOutcome, drained, localVars, ledgerVars, fileVars,
                 abandoned, tickNow, coll, answer, wr, wrOld, rd, observed,
                 probeVars, cleaned,
                 shutVars,
                 retryVars,
                 trigVars,
                 sessVars,
                 routeVars>>

\* markSuccess() / markFailed(): the record gets its terminal status
CleanupMarkDone(i) ==
  /\ docs[i].status = "in_progress"
  /\ \E st \in {"success", "failed"} :
       docs' = [docs EXCEPT ![i].status = st]
  /\ UNCHANGED <<cbVars, now, opVars, isRefreshing, refreshQueue, pc, behind,
                 lastOutcome, drained, localVars, ledgerVars, fileVars,
                 abandoned, tickNow, coll, answer, wr, wrOld, rd, observed,
                 probeVars, cleaned,
                 shutVars,
                 retryVars,
                 trigVars,
                 sessVars,
                 routeVars>>

\* a day goes by
DayPasses ==
  /\ now < MaxDays * DAY
  /\ now' = now + DAY
  /\ UNCHANGED <<cbVars, opVars, svcVars>>

\* cleanupOldRecords(daysToKeep): deleteMany() and its deletedCount
CleanupOldRecords(daysToKeep) ==
  /\ docs' = Remaining(docs, cutoffDate(daysToKeep))
  /\ cleaned' = [asked |-> now, days |-> daysToKeep,
                 deletedCount |-> Len(docs) - Len(docs')]
  /\ UNCHANGED <<cbVars, now, opVars, isRefreshing, refreshQueue, pc, behind,
                 lastOutcome, drained, localVars, ledgerVars, fileVars,
                 abandoned, tickNow, coll, answer, wr, wrOld, rd, observed,
                 probeVars,
                 shutVars,
                 retryVars,
                 trigVars,
                 sessVars,
                 routeVars>>

NextCleanup ==
  \/ CleanupStartRefresh
  \/ \E i \in 1..Len(docs) : CleanupMarkDone(i)
  \/ DayPasses
  \/ \E daysToKeep \in 1..MaxDays : CleanupOldRecords(daysToKeep)

SpecCleanup == Init /\ [][NextCleanup]_vars

\* how many records of ds are equal to doc
Copies(ds, doc) == Cardinality({i \in 1..Len(ds) : ds[i] = doc})

\* C30: cleanupOldRecords(d) deletes exactly the records whose start time
\* is older than d days before now, leaves every other record as it was,
\* and returns the number of records it deleted.
C30_CleanupExact ==
  [][cleaned' # cleaned =>
       /\ \A i \in 1..Len(docs) :
            Copies(docs', docs[i]) =
              IF docs[i].start < now - cleaned'.days * DAY
                THEN 0 ELSE Copies(docs, docs[i])
       /\ \A j \in 1..Len(docs') : Copies(docs, docs'[j]) > 0
       /\ cleaned'.deletedCount = Len(docs) - Len(docs')]_vars

\* C30 witness: a cleanup deleted a record and kept a record that started
\* exactly at the cutoff
C30_Witness ==
  /\ cleaned.deletedCount > 0
  /\ cleaned.asked = now
  /\ \E i \in 1..Len(docs) : docs[i].start = now - cleaned.days * DAY

\* ------------------------------------------------------------------------
\* CookieRefreshService
\* ------------------------------------------------------------------------
InQueue(c) == \E i \in 1..Len(refreshQueue) : refreshQueue[i] = c

\* the test of refreshCookies(), line 117
NeverRefreshing == FALSE

AlreadyRefreshing == isRefreshing

\* the test of the scheduler tick, line 96
SchedulerSeesAlwaysIdle == TRUE

SchedulerSeesBusy == isRefreshing

SchedulerSeesIdle == ~isRefreshing

\* the positions inside the body of refreshCookies()
BodyPcs == {"pickEvent", "startRefresh", "load", "attempt", "sleep",
            "saveCookies", "saveSession", "markSuccess", "markFailed"}
InFlight == {c \in Callers : pc[c] \in BodyPcs}

ClearLocals(c) ==
  /\ refreshRecord' = [refreshRecord EXCEPT ![c] = FALSE]
  /\ err' = [err EXCEPT ![c] = "none"]
  /\ result' = [result EXCEPT ![c] = Null]
  /\ retryCount' = [retryCount EXCEPT ![c] = 0]
  /\ lastError' = [lastError EXCEPT ![c] = "none"]

\* processQueue(error, result): every queued caller is settled, the queue
\* is emptied
processQueue(c) ==
  /\ pc' = [x \in Callers |-> IF x = c \/ InQueue(x) THEN "idle" ELSE pc[x]]
  /\ behind' = [x \in Callers |-> IF InQueue(x) THEN "none" ELSE behind[x]]
  /\ refreshQueue' = <<>>

\* the catch block left by an exception before processQueue() is reached:
\* the queued callers stay queued behind an acquisition that has ended
QueueSkipped(c) ==
  /\ pc' = [pc EXCEPT ![c] = "idle"]
  /\ behind' = [x \in Callers |-> IF InQueue(x) THEN "earlier" ELSE behind[x]]
  /\ UNCHANGED refreshQueue

FinishKeepsFlag(c, kind, queueProcessed) ==
  /\ IF queueProcessed THEN processQueue(c) ELSE QueueSkipped(c)
  /\ lastOutcome' = kind
  /\ drained' = (queueProcessed /\ refreshQueue # <<>>)
  /\ UNCHANGED isRefreshing
  /\ ClearLocals(c)

\* the end of refreshCookies(): processQueue() when it is reached, the
\* return or throw to the caller, and the finally block
Finish(c, kind, queueProcessed) ==
  /\ IF queueProcessed THEN processQueue(c) ELSE QueueSkipped(c)
  /\ lastOutcome' = kind
  /\ drained' = (queueProcessed /\ refreshQueue # <<>>)
  /\ isRefreshing' = FALSE
  /\ ClearLocals(c)

\* getRandomProxy(): a proxy of the list, null when the list is empty.
\* Callers pass no proxy of their own, so this is selectedProxy.
getRandomProxy == IF routes THEN "random" ELSE NoProxy

\* refreshCookies() while a refresh is in progress: the caller is queued
RefreshCookiesQueue(c) ==
  /\ AlreadyRefreshing
  /\ refreshQueue' = Append(refreshQueue, c)
  /\ pc' = [pc EXCEPT ![c] = "queued"]
  /\ behind' = [behind EXCEPT ![c] = "current"]
  /\ UNCHANGED <<cbVars, now, opVars, coll, answer, wr, wrOld, rd,
                 observed, extVars, isRefreshing, lastOutcome, drained, localVars,
                 ledgerVars, fileVars, abandoned, routeVars>>

\* refreshCookies() refused by allowsRequests(): catch without a record,
\* processQueue(error), finally; all of it before the first await
RefreshCookiesFastFail(c) ==
  /\ ~AlreadyRefreshing
  /\ ~allowsRequests
  /\ Finish(c, "circuit-open", TRUE)
  /\ UNCHANGED <<cbVars, now, opVars, coll, answer, wr, wrOld, rd,
                 observed, extVars, ledgerVars, fileVars, abandoned, routeVars>>

\* refreshCookies() starts a logical acquisition; eventGiven tells whether
\* the caller passed an eventId
RefreshCookiesBegin(c, eventGiven) ==
  /\ ~AlreadyRefreshing
  /\ allowsRequests
  /\ failures < MaxFailures
  /\ successCount < MaxSuccess
  /\ isRefreshing' = TRUE
  /\ pc' = [pc EXCEPT ![c] = IF eventGiven THEN "startRefresh" ELSE "pickEvent"]
  /\ touched' = FALSE
  /\ lastOutcome' = "none"
  /\ drained' = FALSE
  /\ selectedProxy' = IF eventGiven THEN getRandomProxy ELSE selectedProxy
  /\ UNCHANGED <<cbVars, now, opVars, coll, answer, wr, wrOld, rd,
                 observed, extVars, refreshQueue, behind, localVars,
                 ledgerVars, cookiesFile, dataCookies, abandoned, routes>>

refreshCookies(c, eventGiven) ==
  \/ RefreshCookiesQueue(c)
  \/ RefreshCookiesFastFail(c)
  \/ RefreshCookiesBegin(c, eventGiven)

\* POST /trigger, or any other direct call of refreshCookies()
UserCall(c) ==
  /\ c \in Users
  /\ pc[c] = "idle"
  /\ \E eventGiven \in BOOLEAN : refreshCookies(c, eventGiven)
  /\ UNCHANGED <<tickNow, trigVars>>

\* the setInterval callback starts: isRefreshDue() takes its "now" and is
\* awaited (tickNow # Null while the callback is pending)
SchedTick ==
  /\ schedulerInterval
  /\ tickNow = Null
  /\ tickNow' = now
  /\ UNCHANGED <<cbVars, now, opVars, auxVars, isRefreshing, refreshQueue, pc, behind,
                 lastOutcome, drained, localVars, ledgerVars, fileVars, abandoned>>

\* isRefreshDue() rejects: the callback logs and returns
SchedThrows ==
  /\ tickNow # Null
  /\ tickNow' = Null
  /\ UNCHANGED <<cbVars, now, opVars, auxVars, isRefreshing, refreshQueue, pc, behind,
                 lastOutcome, drained, localVars, ledgerVars, fileVars, abandoned>>

\* isRefreshDue() answered false, or a refresh is in progress: the callback
\* returns
SchedSkip ==
  /\ tickNow # Null
  /\ ~(isRefreshDue(tickNow) /\ SchedulerSeesIdle)
  /\ tickNow' = Null
  /\ UNCHANGED <<cbVars, now, opVars, auxVars, isRefreshing, refreshQueue, pc, behind,
                 lastOutcome, drained, localVars, ledgerVars, fileVars, abandoned>>

\* the refresh is due and none is in progress: this.refreshCookies() is
\* called and not awaited; the callback returns
SchedStart ==
  /\ tickNow # Null
  /\ isRefreshDue(tickNow)
  /\ SchedulerSeesIdle
  /\ refreshCookies("sched", FALSE)
  /\ tickNow' = Null
  /\ UNCHANGED trigVars

\* await this.getRandomEventId() resolves; getRandomProxy()
PickEventOk(c) ==
  /\ pc[c] = "pickEvent"
  /\ pc' = [pc EXCEPT ![c] = "startRefresh"]
  /\ selectedProxy' = getRandomProxy
  /\ UNCHANGED <<cbVars, now, opVars, coll, answer, wr, wrOld, rd, observed,
                 extVars, trigVars, routes, isRefreshing, refreshQueue, behind,
                 lastOutcome, drained, localVars, ledgerVars, fileVars, abandoned, tickNow>>

\* await this.getRandomEventId() throws: no events found, or the query failed
PickEventThrows(c) ==
  /\ pc[c] = "pickEvent"
  /\ Finish(c, "no-event", TRUE)
  /\ UNCHANGED <<cbVars, now, opVars, auxVars, ledgerVars, fileVars, abandoned, tickNow>>

\* await CookieRefreshTracker.startRefresh() throws
StartRefreshThrows(c) ==
  /\ pc[c] = "startRefresh"
  /\ Finish(c, "ledger-error", TRUE)
  /\ UNCHANGED <<cbVars, now, opVars, auxVars, ledgerVars, fileVars, abandoned, tickNow>>

\* startRefresh() created the record; circuitBreaker.execute() up to the
\* first await of the operation
StartRefreshOk(c) ==
  /\ pc[c] = "startRefresh"
  /\ newest' = StartedRecord
  /\ refreshRecord' = [refreshRecord EXCEPT ![c] = TRUE]
  /\ IF GateRejects
       THEN /\ pc' = [pc EXCEPT ![c] = "markFailed"]
            /\ err' = [err EXCEPT ![c] = "circuit-open"]
            /\ UNCHANGED cbState
       ELSE /\ pc' = [pc EXCEPT ![c] = "load"]
            /\ cbState' = StateAfterGate
            /\ UNCHANGED err
  /\ UNCHANGED <<failures, successCount, lastFailureTime, now, opVars, auxVars,
                 isRefreshing, refreshQueue, behind, lastOutcome, drained, result,
                 retryCount, lastError, lastSuccessful, fileVars,
                 abandoned, tickNow>>

\* ------------------------------------------------------------------------
\* The retry loop: refreshCookies() of browser-cookies.js, run as the
\* operation of circuitBreaker.execute() through performCookieRefresh()
\* ------------------------------------------------------------------------
\* the stored set is non-empty and 0 < expiry - now < COOKIE_REFRESH_INTERVAL
CacheValid ==
  /\ cookiesFile.id # Null
  /\ cookiesFile.exp - now > 0
  /\ cookiesFile.exp - now < COOKIE_REFRESH_INTERVAL

\* cookie sets are told apart by a number; a capture yields a set unlike
\* any set that is stored or remembered
KnownSets ==
  {cookiesFile.id, dataCookies, wr.id, wrOld.id, observed}
    \cup {result[c] : c \in Callers}

FreshSet == CHOOSE n \in 0..(Cardinality(Callers) + 2) :
              /\ n \notin KnownSets
              /\ \A m \in 0..(n - 1) : m \in KnownSets

\* what captureCookies() hands to saveCookiesToFile()
Captured == [id |-> FreshSet, exp |-> now + COOKIE_REFRESH_INTERVAL]

\* the operation rejects: onFailure(), then the catch block of the
\* orchestrator awaits markFailed()
OperationFails(c, e) ==
  /\ onFailure
  /\ pc' = [pc EXCEPT ![c] = "markFailed"]
  /\ err' = [err EXCEPT ![c] = e]

\* a sub-attempt failed with error e: retryCount++, then either the last
\* error is thrown or the loop sleeps before the next sub-attempt
SubAttemptFailed(c, e) ==
  /\ lastError' = [lastError EXCEPT ![c] = e]
  /\ retryCount' = [retryCount EXCEPT ![c] = retryCount[c] + 1]
  /\ IF retryCount[c] + 1 > MAX_REFRESH_RETRIES
       THEN OperationFails(c, e)
       ELSE /\ pc' = [pc EXCEPT ![c] = "sleep"]
            /\ UNCHANGED <<cbVars, err>>

\* first sub-attempt: loadCookiesFromFile() and the cached short-circuit
RetryLoad(c) ==
  /\ pc[c] = "load"
  /\ IF CacheValid
       THEN /\ result' = [result EXCEPT ![c] = cookiesFile.id]
            /\ pc' = [pc EXCEPT ![c] = "saveCookies"]
       ELSE /\ pc' = [pc EXCEPT ![c] = "attempt"]
            /\ UNCHANGED result
  /\ UNCHANGED <<cbVars, now, opVars, auxVars, isRefreshing, refreshQueue, behind,
                 lastOutcome, drained, refreshRecord, err, retryCount, lastError, ledgerVars, fileVars, abandoned, tickNow>>

\* the Driver captures cookies within the deadline; saveCookiesToFile()
\* writes them unless the write fails (it then only logs)
DriverSucceeds(c) ==
  /\ pc[c] = "attempt"
  /\ \E written \in BOOLEAN :
       /\ cookiesFile' = IF written THEN Captured ELSE cookiesFile
       /\ touched' = (touched \/ written)
  /\ result' = [result EXCEPT ![c] = FreshSet]
  /\ pc' = [pc EXCEPT ![c] = "saveCookies"]
  /\ UNCHANGED <<cbVars, now, opVars, auxVars, isRefreshing, refreshQueue, behind,
                 lastOutcome, drained, refreshRecord, err, retryCount, lastError, ledgerVars, dataCookies, abandoned, tickNow>>

\* the Driver reports an error within the deadline
DriverFails(c) ==
  /\ pc[c] = "attempt"
  /\ SubAttemptFailed(c, "driver-error")
  /\ UNCHANGED <<now, opVars, auxVars, isRefreshing, refreshQueue, behind, lastOutcome, drained,
                 refreshRecord, result, ledgerVars, fileVars,
                 abandoned, tickNow>>

\* the deadline fires first: the promise rejects and the sub-attempt is
\* left running
DriverTimeout(c) ==
  /\ pc[c] = "attempt"
  /\ abandoned < MaxAbandoned
  /\ abandoned' = abandoned + 1
  /\ SubAttemptFailed(c, "timeout")
  /\ UNCHANGED <<now, opVars, auxVars, isRefreshing, refreshQueue, behind, lastOutcome, drained,
                 refreshRecord, result, ledgerVars, fileVars, tickNow>>

\* the backoff sleep ends and the next sub-attempt calls the Driver
Sleep(c) ==
  /\ pc[c] = "sleep"
  /\ pc' = [pc EXCEPT ![c] = "attempt"]
  /\ UNCHANGED <<cbVars, now, opVars, auxVars, isRefreshing, refreshQueue, behind,
                 lastOutcome, drained, localVars, ledgerVars, fileVars, abandoned, tickNow>>

\* an abandoned sub-attempt reaches saveCookiesToFile()
AbandonedWrites ==
  /\ abandoned > 0
  /\ cookiesFile' = Captured
  /\ touched' = TRUE
  /\ abandoned' = abandoned - 1
  /\ UNCHANGED <<cbVars, now, opVars, auxVars, isRefreshing, refreshQueue, pc, behind,
                 lastOutcome, drained, localVars, ledgerVars, dataCookies, tickNow>>

\* an abandoned sub-attempt ends without capturing anything
AbandonedEnds ==
  /\ abandoned > 0
  /\ abandoned' = abandoned - 1
  /\ UNCHANGED <<cbVars, now, opVars, auxVars, isRefreshing, refreshQueue, pc, behind,
                 lastOutcome, drained, localVars, ledgerVars, fileVars, tickNow>>

\* performCookieRefresh(): await this.saveCookies(result.cookies) resolves
SaveCookiesOk(c) ==
  /\ pc[c] = "saveCookies"
  /\ dataCookies' = result[c]
  /\ touched' = (touched \/ dataCookies # result[c])
  /\ pc' = [pc EXCEPT ![c] = "saveSession"]
  /\ UNCHANGED <<cbVars, now, opVars, auxVars, isRefreshing, refreshQueue, behind,
                 lastOutcome, drained, localVars, ledgerVars, cookiesFile, abandoned, tickNow>>

\* performCookieRefresh(): fs.writeFile fails and saveCookies() rethrows
SaveCookiesThrows(c) ==
  /\ pc[c] = "saveCookies"
  /\ OperationFails(c, "fs-error")
  /\ UNCHANGED <<now, opVars, auxVars, isRefreshing, refreshQueue, behind, lastOutcome, drained,
                 refreshRecord, result, retryCount, lastError, ledgerVars, fileVars, abandoned, tickNow>>

\* saveSession() never throws; the operation resolves: onSuccess(), then
\* the orchestrator awaits markSuccess()
SaveSession(c) ==
  /\ pc[c] = "saveSession"
  /\ onSuccess
  /\ pc' = [pc EXCEPT ![c] = "markSuccess"]
  /\ UNCHANGED <<now, opVars, auxVars, isRefreshing, refreshQueue, behind, lastOutcome, drained,
                 localVars, ledgerVars, fileVars, abandoned, tickNow>>

\* markSuccess() resolves: processQueue(null, result), return, finally
MarkSuccessOk(c) ==
  /\ pc[c] = "markSuccess"
  /\ newest' = SuccessRecord
  /\ lastSuccessful' = SuccessRecord
  /\ Finish(c, "resolved", TRUE)
  /\ UNCHANGED <<cbVars, now, opVars, auxVars, fileVars, abandoned, tickNow>>

\* markSuccess() throws: the catch block awaits markFailed()
MarkSuccessThrows(c) ==
  /\ pc[c] = "markSuccess"
  /\ pc' = [pc EXCEPT ![c] = "markFailed"]
  /\ err' = [err EXCEPT ![c] = "ledger-error"]
  /\ UNCHANGED <<cbVars, now, opVars, auxVars, isRefreshing, refreshQueue, behind,
                 lastOutcome, drained, refreshRecord, result, retryCount, lastError, ledgerVars, fileVars, abandoned, tickNow>>

\* markFailed() resolves: processQueue(error), throw, finally
MarkFailedOk(c) ==
  /\ pc[c] = "markFailed"
  /\ newest' = FailedRecord
  /\ Finish(c, err[c], TRUE)
  /\ UNCHANGED <<cbVars, now, opVars, auxVars, lastSuccessful, fileVars, abandoned, tickNow>>

\* markFailed() throws inside the catch block: processQueue() is skipped,
\* the finally block still runs
MarkFailedThrows(c) ==
  /\ pc[c] = "markFailed"
  /\ Finish(c, "ledger-error", FALSE)
  /\ UNCHANGED <<cbVars, now, opVars, auxVars, ledgerVars, fileVars, abandoned, tickNow>>

\* ------------------------------------------------------------------------
\* cookies.json between a writer and a reader: saveCookiesToFile() of a
\* capture, getCurrentCookies() / loadCookiesFromFile() of a request
\* ------------------------------------------------------------------------
\* fs.writeFile(COOKIES_FILE, ...) opens the file with flag 'w': it is
\* truncated, and reads as no cookie set until the data is written
SaveCookiesToFileOpen ==
  /\ wr = NoFile
  /\ wr' = Captured
  /\ wrOld' = cookiesFile
  /\ cookiesFile' = NoFile
  /\ UNCHANGED <<cbVars, now, opVars, isRefreshing, refreshQueue, pc, behind,
                 lastOutcome, drained, localVars, ledgerVars, dataCookies,
                 touched, abandoned, tickNow, coll, answer, rd, observed, extVars,
                 trigVars,
                 routeVars>>

\* fs.writeFile() writes the data and resolves, or rejects and
\* saveCookiesToFile() logs and returns false
SaveCookiesToFileWrite ==
  /\ wr # NoFile
  /\ \E written \in BOOLEAN :
       cookiesFile' = IF written THEN wr ELSE cookiesFile
  /\ wr' = NoFile
  /\ wrOld' = NoFile
  /\ UNCHANGED <<cbVars, now, opVars, isRefreshing, refreshQueue, pc, behind,
                 lastOutcome, drained, localVars, ledgerVars, dataCookies,
                 touched, abandoned, tickNow, coll, answer, rd, observed, extVars,
                 trigVars,
                 routeVars>>

\* getCurrentCookies() -> loadCookiesFromFile(): fs.access(); without a
\* file null is returned, and cookies.length throws in getCurrentCookies()
GetCurrentCookiesAccess ==
  /\ rd = "idle"
  /\ IF cookiesFile = NoFile /\ wr = NoFile
       THEN observed' = Null /\ UNCHANGED rd
       ELSE rd' = "accessed" /\ UNCHANGED observed
  /\ UNCHANGED <<cbVars, now, opVars, isRefreshing, refreshQueue, pc, behind,
                 lastOutcome, drained, localVars, ledgerVars, fileVars,
                 abandoned, tickNow, coll, answer, wr, wrOld, extVars,
                 trigVars,
                 routeVars>>

\* fs.readFile() and JSON.parse(): the stored set, or null for a file that
\* is empty or cut short (and then the throw in getCurrentCookies())
GetCurrentCookiesRead ==
  /\ rd = "accessed"
  /\ rd' = "idle"
  /\ observed' = cookiesFile.id
  /\ UNCHANGED <<cbVars, now, opVars, isRefreshing, refreshQueue, pc, behind,
                 lastOutcome, drained, localVars, ledgerVars, fileVars,
                 abandoned, tickNow, coll, answer, wr, wrOld, extVars,
                 trigVars,
                 routeVars>>

NextFiles ==
  \/ SaveCookiesToFileOpen
  \/ SaveCookiesToFileWrite
  \/ GetCurrentCookiesAccess
  \/ GetCurrentCookiesRead
  \/ Tick

SpecFiles == Init /\ [][NextFiles]_vars

\* C11: a read that completes while a write is replacing an existing set
\* yields the complete old set or the complete new one.
C11_ReadSeesOldOrNew ==
  [][(rd = "accessed" /\ rd' = "idle" /\ wr # NoFile /\ wrOld # NoFile)
       => observed' \in {wrOld.id, wr.id}]_vars

\* C20: getCurrentCookies() finding no cookie set starts an acquisition;
\* finding one it returns that set and starts none.
C20_LazyBootstrap ==
  [][/\ (rd = "idle" /\ observed' # observed
         /\ cookiesFile = NoFile /\ wr = NoFile)
          => (isRefreshing' \/ refreshQueue' # refreshQueue)
     /\ (rd = "accessed" /\ rd' = "idle" /\ cookiesFile # NoFile)
          => (observed' = cookiesFile.id /\ UNCHANGED isRefreshing)]_vars

\* POST /circuit-breaker/reset: cookieRefreshService.circuitBreaker.reset()
ResetCircuitBreaker ==
  /\ reset
  /\ UNCHANGED <<now, opVars, svcVars>>

\* the steps of the acquisition in progress, whoever started it
Pipeline ==
  \/ \E c \in Callers : PickEventOk(c)
  \/ \E c \in Callers : PickEventThrows(c)
  \/ \E c \in Callers : StartRefreshThrows(c)
  \/ \E c \in Callers : StartRefreshOk(c)
  \/ \E c \in Callers : RetryLoad(c)
  \/ \E c \in Callers : DriverSucceeds(c)
  \/ \E c \in Callers : DriverFails(c)
  \/ \E c \in Callers : DriverTimeout(c)
  \/ \E c \in Callers : Sleep(c)
  \/ AbandonedWrites
  \/ AbandonedEnds
  \/ \E c \in Callers : SaveCookiesOk(c)
  \/ \E c \in Callers : SaveCookiesThrows(c)
  \/ \E c \in Callers : SaveSession(c)
  \/ \E c \in Callers : MarkSuccessOk(c)
  \/ \E c \in Callers : MarkSuccessThrows(c)
  \/ \E c \in Callers : MarkFailedOk(c)
  \/ \E c \in Callers : MarkFailedThrows(c)

\* The service under every interleaving of scheduler ticks, manual triggers,
\* direct calls and administrative resets, within one breaker time window
\* (the clock stands still).
Next ==
  \/ \E c \in Users : UserCall(c)
  \/ SchedTick
  \/ SchedThrows
  \/ SchedSkip
  \/ SchedStart
  \/ Pipeline
  \/ ResetCircuitBreaker

Spec == Init /\ [][Next]_vars

\* The service with the scheduler, one manual caller and a running clock:
\* the breaker goes through OPEN, HALF_OPEN and back. No sub-attempt outlives its deadline here.
NextTimed ==
  \/ UserCall("u1")
  \/ SchedTick
  \/ SchedThrows
  \/ SchedSkip
  \/ SchedStart
  \/ \E c \in Callers : PickEventOk(c)
  \/ \E c \in Callers : PickEventThrows(c)
  \/ \E c \in Callers : StartRefreshThrows(c)
  \/ \E c \in Callers : StartRefreshOk(c)
  \/ \E c \in Callers : RetryLoad(c)
  \/ \E c \in Callers : DriverSucceeds(c)
  \/ \E c \in Callers : DriverFails(c)
  \/ \E c \in Callers : Sleep(c)
  \/ \E c \in Callers : SaveCookiesOk(c)
  \/ \E c \in Callers : SaveCookiesThrows(c)
  \/ \E c \in Callers : SaveSession(c)
  \/ \E c \in Callers : MarkSuccessOk(c)
  \/ \E c \in Callers : MarkSuccessThrows(c)
  \/ \E c \in Callers : MarkFailedOk(c)
  \/ \E c \in Callers : MarkFailedThrows(c)
  \/ ResetCircuitBreaker
  \/ Tick

SpecTimed == Init /\ [][NextTimed]_vars

\* The same service left to itself: the scheduler, one manual caller and a
\* running clock, nobody calling resetCircuitBreaker().
NextTicks ==
  \/ UserCall("u1")
  \/ SchedTick
  \/ SchedThrows
  \/ SchedSkip
  \/ SchedStart
  \/ \E c \in Callers : PickEventOk(c)
  \/ \E c \in Callers : PickEventThrows(c)
  \/ \E c \in Callers : StartRefreshThrows(c)
  \/ \E c \in Callers : StartRefreshOk(c)
  \/ \E c \in Callers : RetryLoad(c)
  \/ \E c \in Callers : DriverSucceeds(c)
  \/ \E c \in Callers : DriverFails(c)
  \/ \E c \in Callers : Sleep(c)
  \/ \E c \in Callers : SaveCookiesOk(c)
  \/ \E c \in Callers : SaveCookiesThrows(c)
  \/ \E c \in Callers : SaveSession(c)
  \/ \E c \in Callers : MarkSuccessOk(c)
  \/ \E c \in Callers : MarkSuccessThrows(c)
  \/ \E c \in Callers : MarkFailedOk(c)
  \/ \E c \in Callers : MarkFailedThrows(c)
  \/ Tick

SpecTicks == Init /\ [][NextTicks]_vars

\* The orchestrator called directly by two callers, with the administrative
\* reset arriving at any moment and a running clock; the scheduler is
\* stopped.
NextReset ==
  \/ \E c \in Users : UserCall(c)
  \/ \E c \in Callers : PickEventOk(c)
  \/ \E c \in Callers : PickEventThrows(c)
  \/ \E c \in Callers : StartRefreshThrows(c)
  \/ \E c \in Callers : StartRefreshOk(c)
  \/ \E c \in Callers : RetryLoad(c)
  \/ \E c \in Callers : DriverSucceeds(c)
  \/ \E c \in Callers : DriverFails(c)
  \/ \E c \in Callers : Sleep(c)
  \/ \E c \in Callers : SaveCookiesOk(c)
  \/ \E c \in Callers : SaveCookiesThrows(c)
  \/ \E c \in Callers : SaveSession(c)
  \/ \E c \in Callers : MarkSuccessOk(c)
  \/ \E c \in Callers : MarkSuccessThrows(c)
  \/ \E c \in Callers : MarkFailedOk(c)
  \/ \E c \in Callers : MarkFailedThrows(c)
  \/ ResetCircuitBreaker
  \/ Tick

SpecReset == Init /\ [][NextReset]_vars

\* the continuations of the acquisition in progress: each runs when the
\* promise it awaits settles, by resolving, by rejecting or, for a
\* sub-attempt, by its deadline
Advance ==
  \/ \E c \in Callers : PickEventOk(c)
  \/ \E c \in Callers : PickEventThrows(c)
  \/ \E c \in Callers : StartRefreshThrows(c)
  \/ \E c \in Callers : StartRefreshOk(c)
  \/ \E c \in Callers : RetryLoad(c)
  \/ \E c \in Callers : DriverSucceeds(c)
  \/ \E c \in Callers : DriverFails(c)
  \/ \E c \in Callers : DriverTimeout(c)
  \/ \E c \in Callers : Sleep(c)
  \/ \E c \in Callers : SaveCookiesOk(c)
  \/ \E c \in Callers : SaveCookiesThrows(c)
  \/ \E c \in Callers : SaveSession(c)
  \/ \E c \in Callers : MarkSuccessOk(c)
  \/ \E c \in Callers : MarkSuccessThrows(c)
  \/ \E c \in Callers : MarkFailedOk(c)
  \/ \E c \in Callers : MarkFailedThrows(c)

\* The scheduler and one manual caller, with sub-attempts that may end by
\* their deadline; no administrative reset and the clock stands still. Every
\* await of the acquisition in progress settles, so its continuation runs.
NextBusy ==
  \/ UserCall("u1")
  \/ SchedTick
  \/ SchedThrows
  \/ SchedSkip
  \/ SchedStart
  \/ Advance

SpecBusy == Init /\ [][NextBusy]_vars /\ WF_vars(Advance)

\* The orchestrator and its wait queue with every caller (two manual
\* callers and the scheduler): no administrative reset, the clock stands
\* still and no sub-attempt outlives its deadline.
NextQueue ==
  \/ \E c \in Users : UserCall(c)
  \/ SchedTick
  \/ SchedThrows
  \/ SchedSkip
  \/ SchedStart
  \/ \E c \in Callers : PickEventOk(c)
  \/ \E c \in Callers : PickEventThrows(c)
  \/ \E c \in Callers : StartRefreshThrows(c)
  \/ \E c \in Callers : StartRefreshOk(c)
  \/ \E c \in Callers : RetryLoad(c)
  \/ \E c \in Callers : DriverSucceeds(c)
  \/ \E c \in Callers : DriverFails(c)
  \/ \E c \in Callers : Sleep(c)
  \/ \E c \in Callers : SaveCookiesOk(c)
  \/ \E c \in Callers : SaveCookiesThrows(c)
  \/ \E c \in Callers : SaveSession(c)
  \/ \E c \in Callers : MarkSuccessOk(c)
  \/ \E c \in Callers : MarkSuccessThrows(c)
  \/ \E c \in Callers : MarkFailedOk(c)
  \/ \E c \in Callers : MarkFailedThrows(c)

SpecQueue == Init /\ [][NextQueue]_vars

\* The same callers on a service whose proxy list is empty
SpecNoRoutes == InitNoRoutes /\ [][NextQueue]_vars

\* shutdown(): clearInterval(), then the first test of this.isRefreshing
ShutdownCall ==
  /\ shutdownPc = "none"
  /\ schedulerInterval' = FALSE
  /\ shutdownPc' = IF isRefreshing THEN "polling" ELSE "returned"
  /\ UNCHANGED <<cbVars, now, opVars, isRefreshing, refreshQueue, pc, behind,
                 lastOutcome, drained, localVars, ledgerVars, fileVars,
                 abandoned, tickNow, coll, answer, wr, wrOld, rd, observed,
                 probeVars, cleanVars,
                 retryVars,
                 trigVars,
                 sessVars,
                 routeVars>>

\* shutdown(): the one-second sleep ends and this.isRefreshing is false
ShutdownPoll ==
  /\ shutdownPc = "polling"
  /\ ~isRefreshing
  /\ shutdownPc' = "returned"
  /\ UNCHANGED <<cbVars, now, opVars, isRefreshing, refreshQueue, pc, behind,
                 lastOutcome, drained, localVars, ledgerVars, fileVars,
                 abandoned, tickNow, coll, answer, wr, wrOld, rd, observed,
                 probeVars, cleanVars, schedulerInterval,
                 retryVars,
                 trigVars,
                 sessVars,
                 routeVars>>

\* The orchestrator with every caller, and a shutdown() at any moment
NextShutdown ==
  \/ NextQueue
  \/ ShutdownCall
  \/ ShutdownPoll

SpecShutdown == Init /\ [][NextShutdown]_vars

\* ------------------------------------------------------------------------
\* POST /api/cookie-refresh/trigger: the triggerRefresh handler of
\* serviceConfig.js in front of the service. "u1" is the refreshCookies()
\* call the handler makes; "u2" is any other caller.
\* ------------------------------------------------------------------------
\* what a request finds and carries: cookieRefreshService set or not;
\* req.body.eventId falsy (absent, "", 0, null), a non-empty string, or
\* another truthy value; req.body.proxy falsy, an object with host and
\* port, or a truthy value lacking one of them
Requests == [service : BOOLEAN,
             eventId : {"falsy", "string", "other"},
             proxy : {"falsy", "complete", "partial"}]

\* !(eventId && typeof eventId !== 'string')
EventIdAcceptedAlways(req) == TRUE

EventIdAccepted(req) == req.eventId # "other"

\* !(proxy && (!proxy.host || !proxy.port))
ProxyAccepted(req) == req.proxy # "partial"

\* the status of the response the handler sends
TriggerResponse(req) ==
  IF ~req.service THEN "503"
  ELSE IF ~EventIdAccepted(req) THEN "400-eventId"
  ELSE IF ~ProxyAccepted(req) THEN "400-proxy"
  ELSE "200"

\* the handler up to the response: the 503 and 400 returns, or res.json()
\* with success: true
TriggerRespond(req) ==
  /\ trPc \in {"none", "rejected", "called"}
  /\ pc["u1"] = "idle"
  /\ trInput' = req
  /\ trResponse' = TriggerResponse(req)
  /\ trPc' = IF TriggerResponse(req) = "200" THEN "responded" ELSE "rejected"
  /\ UNCHANGED <<cbVars, now, opVars, isRefreshing, refreshQueue, pc, behind,
                 lastOutcome, drained, localVars, ledgerVars, fileVars,
                 abandoned, tickNow, coll, answer, wr, wrOld, rd, observed,
                 extVars, routeVars>>

\* cookieRefreshService.refreshCookies(eventId, proxy) is called after the
\* response, up to its first await; then() and catch() only log
TriggerCall ==
  /\ trPc = "responded"
  /\ trPc' = "called"
  /\ refreshCookies("u1", trInput.eventId = "string")
  /\ UNCHANGED <<tickNow, trInput, trResponse>>

NextTrigger ==
  \/ \E req \in Requests : TriggerRespond(req)
  \/ TriggerCall
  \/ UserCall("u2")
  \/ \E c \in Users : PickEventOk(c)
  \/ \E c \in Users : PickEventThrows(c)
  \/ \E c \in Users : StartRefreshThrows(c)
  \/ \E c \in Users : StartRefreshOk(c)
  \/ \E c \in Users : RetryLoad(c)
  \/ \E c \in Users : DriverSucceeds(c)
  \/ \E c \in Users : DriverFails(c)
  \/ \E c \in Users : Sleep(c)
  \/ \E c \in Users : SaveCookiesOk(c)
  \/ \E c \in Users : SaveCookiesThrows(c)
  \/ \E c \in Users : SaveSession(c)
  \/ \E c \in Users : MarkSuccessOk(c)
  \/ \E c \in Users : MarkSuccessThrows(c)
  \/ \E c \in Users : MarkFailedOk(c)
  \/ \E c \in Users : MarkFailedThrows(c)

SpecTrigger == Init /\ [][NextTrigger]_vars

\* ------------------------------------------------------------------------
\* Properties of the service
\* ------------------------------------------------------------------------
\* C1: at most one caller is inside the body of refreshCookies() (after the
\* isRefreshing check) at any time.
C1_SingleFlight == Cardinality(InFlight) <= 1

\* C1 witness: one acquisition in flight, a manual trigger queued behind it
\* and a scheduler tick pending
C1_Witness ==
  /\ InFlight = {"u1"}
  /\ pc["u2"] = "queued"
  /\ tickNow # Null

\* C2: a caller queued during an acquisition is settled by the end of that
\* acquisition, never by the outcome of a later one.
C2_SettledByCurrent ==
  [][\A c \in Callers :
       (pc[c] = "queued" /\ pc'[c] # "queued") => behind[c] = "current"]_vars

\* C3: whenever isRefreshing is false the wait queue is empty.
C3_IdleQueueEmpty == ~isRefreshing => refreshQueue = <<>>

\* C10: when an acquisition ends in failure, no cookie file has changed
\* since it began.
C10_FailureKeepsFiles ==
  [][(isRefreshing /\ ~isRefreshing' /\ lastOutcome' # "resolved")
       => ~touched']_vars

\* the positions of a caller whose operation is running under execute()
OperationPcs == {"load", "attempt", "sleep", "saveCookies", "saveSession"}

\* C6: while the breaker is OPEN and the time since the last failure is not
\* greater than the reset timeout, no request (scheduler tick or manual
\* trigger) enters the body of refreshCookies(), no operation is running or
\* started, and the rejection of a request leaves state, failure count,
\* success count and last-failure time unchanged.
C6_OpenRejectsUntouched ==
  [][(cbState = "OPEN" /\ ~ResetElapsed) =>
       /\ \A c \in Callers : pc[c] \notin BodyPcs => pc'[c] \notin BodyPcs
       /\ \A c \in Callers : pc[c] \notin OperationPcs /\ pc'[c] \notin OperationPcs
       /\ (lastOutcome # "circuit-open" /\ lastOutcome' = "circuit-open")
            => UNCHANGED <<cbVars, abandoned, ledgerVars, fileVars>>]_vars

\* C6 witness: a request has been rejected by the open breaker within the
\* reset timeout of a failure
C6_Witness ==
  /\ cbState = "OPEN"
  /\ ~ResetElapsed
  /\ failures >= FAILURE_THRESHOLD
  /\ lastOutcome = "circuit-open"

\* C7: execute() called on an OPEN breaker after more than the reset
\* timeout moves it to HALF_OPEN and runs the operation; when the operation
\* of a HALF_OPEN breaker succeeds the breaker is CLOSED with failures = 0.
C7_ProbeThenClose ==
  [][\A c \in Callers :
       /\ (/\ pc[c] = "startRefresh" /\ refreshRecord'[c]
           /\ cbState = "OPEN" /\ ResetElapsed)
            => (cbState' = "HALF_OPEN" /\ pc'[c] = "load")
       /\ (/\ pc[c] = "saveSession" /\ pc'[c] = "markSuccess"
           /\ cbState = "HALF_OPEN")
            => (cbState' = "CLOSED" /\ failures' = 0)]_vars

\* C7 witness: the probe admitted on the elapsed timeout has captured its
\* cookies and is about to succeed
C7_Witness ==
  /\ cbState = "HALF_OPEN"
  /\ failures >= FAILURE_THRESHOLD
  /\ pc["u1"] = "saveSession"

\* the Driver sub-attempts that are executing: the one the retry loop is
\* awaiting, and those left running behind an expired deadline
RunningSubAttempts ==
  abandoned + Cardinality({c \in Callers : pc[c] = "attempt"})

\* C12: at most one Driver sub-attempt is executing at any time: a
\* sub-attempt whose deadline expired is no longer running when the next
\* sub-attempt, or the next logical acquisition, starts.
C12_OneSubAttempt == RunningSubAttempts <= 1

\* C13: once the logical acquisition that created an AttemptRecord has
\* ended, the record has received its terminal update: it is no longer
\* in_progress.
C13_EndedRecordTerminal == ~isRefreshing => newest.status # "in_progress"

\* a step in which some queued caller is settled
SettlesQueued == \E d \in Callers : pc[d] = "queued" /\ pc'[d] # "queued"

C15_RefusalRecorded ==
  [][(lastOutcome # "circuit-open" /\ lastOutcome' = "circuit-open")
       => (newest' # newest /\ newest'.status = "failed")]_vars

\* what isRefreshDue() returns to the pending tick, and the busy flag the
\* tick reads next
TickDue == DueAnswer(<<newest, lastSuccessful>>, tickNow)
TickStarts == pc["sched"] \notin BodyPcs /\ pc'["sched"] \in BodyPcs
TickEnds == tickNow # Null /\ tickNow' = Null

\* C16: a scheduler tick starts a logical acquisition if and only if
\* isRefreshDue() returned true and the orchestrator is not busy when
\* checked: a tick that finds both cannot skip, a tick that misses one calls
\* nothing, and an acquisition of the scheduler begins only in such a tick.
\* The tick handler has returned when the acquisition is under way, and the
\* end of that acquisition, failed or not, leaves the tick loop alone.
C16_TickStartsIffDueAndIdle ==
  /\ []((tickNow # Null /\ TickDue /\ ~isRefreshing) => ~ENABLED SchedSkip)
  /\ [][/\ TickStarts => (TickEnds /\ TickDue /\ ~isRefreshing)
        /\ (TickEnds /\ ~(TickDue /\ ~isRefreshing))
             => UNCHANGED <<pc, isRefreshing, refreshQueue, lastOutcome>>
        /\ (pc["sched"] \in BodyPcs /\ pc'["sched"] \notin BodyPcs)
             => UNCHANGED tickNow]_vars

\* C16 witness: the acquisition started by a tick is failing while a later
\* tick is already pending
C16_Witness ==
  /\ pc["sched"] = "markFailed"
  /\ tickNow # Null

\* C19: after a logical acquisition failed, the scheduler starts the next
\* one no earlier than the next-scheduled-time persisted on the failed
\* record (completion + failure backoff).
C19_BackoffGovernsRetry ==
  [][(TickStarts /\ newest.status = "failed") => now >= newest.next]_vars

\* C21: when shutdown() returns no logical acquisition is in flight, and
\* after it has returned the scheduler starts none.
C21_QuietAfterShutdown ==
  [][/\ (shutdownPc # "returned" /\ shutdownPc' = "returned") => InFlight' = {}
     /\ shutdownPc = "returned" => ~TickStarts]_vars

\* C31: a tick whose isRefreshDue() query fails treats the refresh as due:
\* whenever a tick ends while the orchestrator is idle and the breaker
\* admits, and the Ledger could only have answered "due" or failed, an
\* acquisition of the scheduler starts.
C31_FailedQueryAssumesDue ==
  [][(TickEnds /\ TickDue /\ ~isRefreshing /\ allowsRequests) => TickStarts]_vars

\* C35: a precondition failure ends the acquisition before the Driver:
\* when getRandomEventId() finds no event the caller and the queued
\* callers are settled with the error, and the Driver runs a sub-attempt
\* only for an acquisition that has a proxy.
C35_PreconditionFailureRejects ==
  /\ [](\A c \in Callers : pc[c] = "attempt" => selectedProxy # NoProxy)
  /\ [][\A c \in Callers :
          (pc[c] = "pickEvent" /\ pc'[c] # "startRefresh" /\ pc'[c] # "pickEvent")
            => /\ lastOutcome' = "no-event"
               /\ \A x \in Callers : pc'[x] = "idle"
               /\ refreshQueue' = <<>>]_vars

\* C36, as stated: a logical acquisition that ran the retry loop and
\* fails has raised the failure count by one, so the count is at least 1
\* while its record is being marked failed.
C36_FailedAcquisitionCounted ==
  \A c \in Callers :
    (pc[c] = "markFailed" /\ err[c] # "circuit-open") => failures > 0

\* C36, amended: the failure count follows the operation given to
\* execute(), not the sub-attempts and not the Ledger calls. It changes in
\* two steps only: by exactly +1 when the operation of an acquisition
\* rejects (retry loop exhausted or saveCookies() failed), to 0 when the
\* operation resolves. A failed sub-attempt that is not the last, an
\* acquisition ended before execute(), and markSuccess() or markFailed(),
\* failing or not, leave it as it was.
C36_CountsOperations ==
  [][/\ failures' # failures =>
          \E c \in Callers :
            \/ /\ pc[c] \in OperationPcs /\ pc'[c] = "markFailed"
               /\ failures' = failures + 1
            \/ /\ pc[c] = "saveSession" /\ pc'[c] = "markSuccess"
               /\ failures' = 0
     /\ \A c \in Callers :
          /\ (pc[c] \in OperationPcs /\ pc'[c] = "markFailed")
               => failures' = failures + 1
          /\ (pc[c] = "saveSession" /\ pc'[c] = "markSuccess") => failures' = 0
          /\ (pc[c] = "attempt" /\ pc'[c] = "sleep") => UNCHANGED cbVars
     /\ (\A c \in Callers : pc[c] \notin OperationPcs) => UNCHANGED failures]_vars

\* C36 witness: an acquisition has failed all its sub-attempts and the
\* breaker counts one failure
C36_Witness ==
  \E c \in Callers :
    /\ pc[c] = "markFailed"
    /\ retryCount[c] = MAX_REFRESH_RETRIES + 1
    /\ failures = 1

\* C37: with nobody resetting the breaker, nothing changes the failure
\* count or the last-failure time while the breaker is OPEN, and a fast-fail
\* changes nothing of the breaker; once more than the reset timeout has
\* passed since that failure a refreshCookies() call is not fast-failed, and
\* the acquisition that reaches circuitBreaker.execute() on the OPEN breaker
\* enters the retry loop with the breaker HALF_OPEN.
C37_OpenEndsByProbe ==
  [][/\ cbState = "OPEN" => UNCHANGED <<failures, lastFailureTime>>
     /\ (lastOutcome # "circuit-open" /\ lastOutcome' = "circuit-open")
          => /\ cbState = "OPEN" /\ ~ResetElapsed
             /\ UNCHANGED cbVars
     /\ \A c \in Callers :
          (/\ cbState = "OPEN" /\ pc[c] = "startRefresh"
           /\ pc'[c] \notin {"startRefresh", "idle"})
            => /\ ResetElapsed
               /\ pc'[c] = "load"
               /\ cbState' = "HALF_OPEN"]_vars

\* C37 witness: the breaker opened, a request was fast-failed, the reset
\* timeout passed and the next acquisition runs as the HALF_OPEN probe
C37_Witness ==
  /\ cbState = "HALF_OPEN"
  /\ failures >= FAILURE_THRESHOLD
  /\ ResetElapsed
  /\ \E c \in Callers : pc[c] = "attempt"

\* C38: in every state the orchestrator reaches, with resets at any
\* moment, the breaker is OPEN or HALF_OPEN only if the failure count is at
\* least the failure threshold, and the last-failure time is set whenever
\* the breaker is OPEN.
C38_OpenMeansThreshold ==
  /\ cbState \in {"OPEN", "HALF_OPEN"} => failures >= FAILURE_THRESHOLD
  /\ cbState = "OPEN" => lastFailureTime # Null

\* C38 witness: after a successful acquisition the breaker was reset, and
\* five failed acquisitions later it is OPEN again
C38_Witness ==
  /\ cbState = "OPEN"
  /\ failures = FAILURE_THRESHOLD
  /\ lastFailureTime # Null
  /\ successCount = 0
  /\ lastSuccessful = SuccessRecord

\* C39: the scheduler's request is never placed on the wait queue. A tick
\* whose isRefreshDue() answer arrives while a refresh is in progress ends
\* without calling refreshCookies(): queue, callers and busy flag stay as
\* they were, whoever else is calling at the time.
C39_SchedulerNeverQueued ==
  /\ [](pc["sched"] # "queued" /\ ~InQueue("sched"))
  /\ [][(tickNow # Null /\ tickNow' = Null /\ isRefreshing)
          => UNCHANGED <<refreshQueue, pc, isRefreshing>>]_vars

\* C39 witness: a tick is pending while a manual caller's acquisition is in
\* progress and the other manual caller is queued behind it
C39_Witness ==
  /\ tickNow # Null
  /\ isRefreshing
  /\ pc["sched"] = "idle"
  /\ \E c \in Users : pc[c] \in BodyPcs
  /\ \E c \in Users : pc[c] = "queued" /\ InQueue(c)

\* C40: an acquisition that has set the busy flag eventually clears it,
\* whichever way it ends, and a refreshCookies() call made while the flag is
\* clear is never queued.
C40_BusyFlagReleased ==
  /\ isRefreshing ~> ~isRefreshing
  /\ [][~isRefreshing => \A c \in Callers : pc'[c] = "queued" => pc[c] = "queued"]_vars

\* C40 witness: the flag is clear again after an acquisition whose
\* markFailed() threw in the catch block, and a caller queued behind it was
\* left waiting
C40_Witness ==
  /\ ~isRefreshing
  /\ lastOutcome = "ledger-error"
  /\ \E c \in Callers : pc[c] = "queued"

====
